---- MODULE Spec2Model ----
(***************************************************************************)
(* Model of vfetcher: the identifier normalizer (extract_video_id), the    *)
(* inventory scanner (get_downloaded_video_ids), the dedup filter          *)
(* (filter_already_downloaded), the batch downloader (download_videos) and *)
(* the two commands that chain them (download, channel).                   *)
(*                                                                         *)
(* Python strings are sequences of one-character strings, so that          *)
(* startswith, urlparse, parse_qs and re.search are computed character by  *)
(* character.  Times are whole seconds.                                    *)
(***************************************************************************)
EXTENDS Integers, Sequences, FiniteSets, TLC

VARIABLES
    entry,                  \* which function of the package was called
    pc,                     \* position of the control flow
    vid,                    \* extract_video_id: its argument
    result,                 \* extract_video_id: what it returned
    command,                \* "download" | "channel" | "none"
    video_ids,              \* the list handed to filter_already_downloaded
    directory,              \* entries of output_dir: [name, is_file]
    directory_at_call,      \* output_dir as it was when the call started
    downloaded_ids,         \* filter_already_downloaded: the scanned inventory
    scans,                  \* number of get_downloaded_video_ids calls so far
    k,                      \* filter_already_downloaded: items already looped over
    video_urls_to_download, \* filter_already_downloaded: kept items
    skipped_count,          \* filter_already_downloaded: skipped items
    video_urls,             \* download_videos: its argument
    delay,                  \* download_videos: its argument
    jitter,                 \* download_videos: its argument
    i,                      \* download_videos: loop index (0-based, as enumerate)
    success_count,          \* download_videos: local
    failed_urls,            \* download_videos: local
    overall_task,           \* the "Downloading videos..." task of the progress sink
    current_task_id,        \* download_videos: local (0 is None)
    trace,                  \* what the collaborators saw, in order
    download_result         \* the DownloadResult returned

vars == <<entry, pc, vid, result, command, video_ids, directory, directory_at_call,
          downloaded_ids, scans, k, video_urls_to_download, skipped_count,
          video_urls, delay, jitter, i, success_count, failed_urls, overall_task,
          current_task_id, trace, download_result>>

----------------------------------------------------------------------------
(* Bounds of the model. *)

\* longest list of references given to a command
MaxIds == 2

\* longest list of URLs given to download_videos directly
MaxUrls == 3

----------------------------------------------------------------------------
(* Character classes and string literals of the source. *)

LowerAlpha == <<"a","b","c","d","e","f","g","h","i","j","k","l","m","n","o","p","q","r","s","t","u","v","w","x","y","z">>

UpperAlpha == <<"A","B","C","D","E","F","G","H","I","J","K","L","M","N","O","P","Q","R","S","T","U","V","W","X","Y","Z">>

Digits == <<"0","1","2","3","4","5","6","7","8","9">>

HexDigits == <<"0","1","2","3","4","5","6","7","8","9","a","b","c","d","e","f">>

\* chr(32) .. chr(95), in code order
PrintableLow == <<" ","!","\"","#","$","%","&","'","(",")","*","+",",","-",".","/","0","1","2","3","4","5","6","7","8","9",":",";","<","=",">","?","@","A","B","C","D","E","F","G","H","I","J","K","L","M","N","O","P","Q","R","S","T","U","V","W","X","Y","Z","[","\\","]","^","_">>

\* chr(97) .. chr(126), in code order
PrintableHigh == <<"a","b","c","d","e","f","g","h","i","j","k","l","m","n","o","p","q","r","s","t","u","v","w","x","y","z","{","|","}","~">>

\* the codes chr() is tabulated for (the grave accent, 96, is left out)
Tabulated == (32..95) \cup (97..126)

Chr(code) == IF code <= 95 THEN PrintableLow[code - 31] ELSE PrintableHigh[code - 96]

Range(s) == {s[n] : n \in DOMAIN s}

\* the literal "http" of vid.startswith("http")
HTTP == <<"h","t","t","p">>

HostWww == <<"w","w","w",".","y","o","u","t","u","b","e",".","c","o","m">>

HostBare == <<"y","o","u","t","u","b","e",".","c","o","m">>

HostShort == <<"y","o","u","t","u",".","b","e">>

PathWatch == <<"/","w","a","t","c","h">>

\* the f-string prefix "https://www.youtube.com/watch?v="
WatchUrlPrefix == <<"h","t","t","p","s",":","/","/","w","w","w",".","y","o","u","t","u","b","e",".","c","o","m","/","w","a","t","c","h","?","v","=">>

\* {11} of the filename pattern
IdLen == 11

\* [a-zA-Z0-9_-] of the filename pattern
IdChars == Range(LowerAlpha) \cup Range(UpperAlpha) \cup Range(Digits) \cup {"_", "-"}

----------------------------------------------------------------------------
(* str methods. Positions are 1-based; 0 stands for "not found". *)

StartsWith(s, p) == Len(s) >= Len(p) /\ SubSeq(s, 1, Len(p)) = p

Find(s, c) ==
    IF c \in Range(s) THEN CHOOSE n \in DOMAIN s : s[n] = c /\ \A m \in 1..(n - 1) : s[m] # c
    ELSE 0

\* last position of c in s
RFind(s, c) ==
    IF c \in Range(s) THEN CHOOSE n \in DOMAIN s : s[n] = c /\ \A m \in (n + 1)..Len(s) : s[m] # c
    ELSE 0

From(s, n) == SubSeq(s, n, Len(s))

LowerChar(c) ==
    IF c \in Range(UpperAlpha) THEN LowerAlpha[CHOOSE n \in DOMAIN UpperAlpha : UpperAlpha[n] = c]
    ELSE c

Lower(s) == [n \in DOMAIN s |-> LowerChar(s[n])]

Replace(s, a, b) == [n \in DOMAIN s |-> IF s[n] = a THEN b ELSE s[n]]

RECURSIVE Split(_, _)
Split(s, c) ==
    LET n == Find(s, c)
    IN  IF n = 0 THEN <<s>> ELSE <<SubSeq(s, 1, n - 1)>> \o Split(From(s, n + 1), c)

----------------------------------------------------------------------------
(* urllib.parse, as far as extract_video_id uses it. *)

\* scheme_chars of urllib.parse
SchemeChars == Range(LowerAlpha) \cup Range(UpperAlpha) \cup Range(Digits) \cup {"+", "-", "."}

\* first position at or after `start` of one of "/?#", or Len(url) + 1
NetlocEnd(url, start) ==
    LET hits == {n \in start..Len(url) : url[n] \in {"/", "?", "#"}}
    IN  IF hits = {} THEN Len(url) + 1 ELSE CHOOSE n \in hits : \A m \in hits : n <= m

\* urlsplit: scheme, netloc, path, query, fragment, or ValueError (raised).
\* Inputs hold no whitespace, no control character, no non-ASCII character and
\* no netloc with both "[" and "]".
urlparse(url) ==
    LET colon     == Find(url, ":")
        hasScheme == colon > 1 /\ Range(SubSeq(url, 1, colon - 1)) \subseteq SchemeChars
        scheme    == IF hasScheme THEN Lower(SubSeq(url, 1, colon - 1)) ELSE <<>>
        rest1     == IF hasScheme THEN From(url, colon + 1) ELSE url
        hasNetloc == StartsWith(rest1, <<"/", "/">>)
        cut       == NetlocEnd(rest1, 3)
        netloc    == IF hasNetloc THEN SubSeq(rest1, 3, cut - 1) ELSE <<>>
        rest2     == IF hasNetloc THEN From(rest1, cut) ELSE rest1
        hash      == Find(rest2, "#")
        fragment  == IF hash = 0 THEN <<>> ELSE From(rest2, hash + 1)
        rest3     == IF hash = 0 THEN rest2 ELSE SubSeq(rest2, 1, hash - 1)
        qmark     == Find(rest3, "?")
        query     == IF qmark = 0 THEN <<>> ELSE From(rest3, qmark + 1)
        path      == IF qmark = 0 THEN rest3 ELSE SubSeq(rest3, 1, qmark - 1)
    IN  [raised   |-> ("[" \in Range(netloc)) # ("]" \in Range(netloc)),
         scheme   |-> scheme,
         netloc   |-> netloc,
         path     |-> path,
         query    |-> query,
         fragment |-> fragment]

\* SplitResult.hostname; None is the empty sequence (hostname is never "")
hostname(netloc) ==
    LET at       == RFind(netloc, "@")
        hostinfo == From(netloc, at + 1)
        open     == Find(hostinfo, "[")
        bracketed == From(hostinfo, open + 1)
        close    == Find(bracketed, "]")
        colon    == Find(hostinfo, ":")
        name     == IF open # 0
                    THEN (IF close = 0 THEN bracketed ELSE SubSeq(bracketed, 1, close - 1))
                    ELSE (IF colon = 0 THEN hostinfo ELSE SubSeq(hostinfo, 1, colon - 1))
    IN  Lower(name)

IsHex(c) == LowerChar(c) \in Range(HexDigits)

HexVal(c) == (CHOOSE n \in DOMAIN HexDigits : HexDigits[n] = LowerChar(c)) - 1

\* unquote: %XX becomes chr(0xXX); anything else is kept. Inputs hold no escape
\* of a code outside Tabulated.
RECURSIVE unquote(_)
unquote(s) ==
    IF s = <<>> THEN <<>>
    ELSE IF /\ s[1] = "%"
            /\ Len(s) >= 3
            /\ IsHex(s[2])
            /\ IsHex(s[3])
            /\ 16 * HexVal(s[2]) + HexVal(s[3]) \in Tabulated
         THEN <<Chr(16 * HexVal(s[2]) + HexVal(s[3]))>> \o unquote(From(s, 4))
         ELSE <<s[1]>> \o unquote(Tail(s))

\* parse_qsl with keep_blank_values=False, strict_parsing=False, separator "&":
\* the (name, value) pairs in query order
RECURSIVE PairsOf(_)
PairsOf(fields) ==
    IF fields = <<>> THEN <<>>
    ELSE LET eq == Find(Head(fields), "=")
             name  == SubSeq(Head(fields), 1, eq - 1)
             value == From(Head(fields), eq + 1)
         IN  IF Head(fields) = <<>> \/ eq = 0 \/ value = <<>>
             THEN PairsOf(Tail(fields))
             ELSE <<[name  |-> unquote(Replace(name, "+", " ")),
                     value |-> unquote(Replace(value, "+", " "))]>> \o PairsOf(Tail(fields))

parse_qsl(qs) == IF qs = <<>> THEN <<>> ELSE PairsOf(Split(qs, "&"))

\* parse_qs(query).get("v", [default])[0]
FirstV(query, default) ==
    LET pairs == parse_qsl(query)
        hits  == {n \in DOMAIN pairs : pairs[n].name = <<"v">>}
    IN  IF hits = {} THEN default
        ELSE pairs[CHOOSE n \in hits : \A m \in hits : n <= m].value

----------------------------------------------------------------------------
(* Identifier normalizer. *)

\* extract_video_id: [raised |-> TRUE] when urlparse raises ValueError
extract_video_id(v) ==
    IF ~StartsWith(v, HTTP) THEN [raised |-> FALSE, value |-> v]
    ELSE LET parsed_url == urlparse(v)
         IN  IF parsed_url.raised THEN [raised |-> TRUE, value |-> <<>>]
             ELSE IF /\ hostname(parsed_url.netloc) \in {HostWww, HostBare}
                     /\ parsed_url.path = PathWatch
                  THEN [raised |-> FALSE, value |-> FirstV(parsed_url.query, v)]
                  ELSE IF hostname(parsed_url.netloc) = HostShort
                       THEN [raised |-> FALSE, value |-> From(parsed_url.path, 2)]
                       ELSE [raised |-> FALSE, value |-> v]

----------------------------------------------------------------------------
(* Local inventory scanner. *)

\* the pattern -([a-zA-Z0-9_-]{11})\. matches name at position n
MatchAt(name, n) ==
    /\ n + IdLen + 1 <= Len(name)
    /\ name[n] = "-"
    /\ \A m \in 1..IdLen : name[n + m] \in IdChars
    /\ name[n + IdLen + 1] = "."

\* re.search: group(1) of the leftmost match (only asked when there is one)
SearchId(name) ==
    LET n == CHOOSE n \in DOMAIN name : MatchAt(name, n) /\ \A m \in 1..(n - 1) : ~MatchAt(name, m)
    IN  SubSeq(name, n + 1, n + IdLen)

get_downloaded_video_ids(output_dir) ==
    {SearchId(e.name) : e \in {f \in output_dir : f.is_file /\ \E n \in DOMAIN f.name : MatchAt(f.name, n)}}

----------------------------------------------------------------------------
(* Inputs. *)

SchemeHttp == <<"h","t","t","p",":","/","/">>

SchemeHttps == <<"h","t","t","p","s",":","/","/">>

HostMobile == <<"m",".","y","o","u","t","u","b","e",".","c","o","m">>

HostUpper == <<"W","W","W",".","Y","O","U","T","U","B","E",".","C","O","M">>

HostUserPort == <<"u","s","e","r","@","y","o","u","t","u",".","b","e",":","4","4","3">>

HostOpenBracket == <<"[","y","o","u","t","u",".","b","e">>

IdA == <<"a","a","a","a","a","a","a","a","a","a","a">>

IdB == <<"b","b","b","b","b","b","b","b","b","b","b">>

IdC == <<"c","c","c","c","c","c","c","c","c","c","c">>

\* an identifier whose first four characters are h, t, t, p
IdHttp == <<"h","t","t","p","A","b","C","d","E","f","G">>

\* identifier A copied together with the next parameter of the URL it came from
IdAWithParam == <<"a","a","a","a","a","a","a","a","a","a","a","&","t","=","1">>

\* a URL whose host part opens a bracket and never closes it
BrokenUrl == SchemeHttp \o HostOpenBracket

UpperSchemeUrl == <<"H","T","T","P",":","/","/","y","o","u","t","u",".","b","e","/","x">>

WatchUrl(id) == WatchUrlPrefix \o id

ShortUrl(id) == SchemeHttps \o HostShort \o <<"/">> \o id

Schemes == {SchemeHttp, SchemeHttps, HTTP}

Hosts == {HostWww, HostBare, HostShort, HostMobile, HostUpper, HostUserPort, HostOpenBracket}

Paths == {<<>>, PathWatch, PathWatch \o <<"/">>, <<"/">> \o IdA, <<"/","e","m","b","e","d","/">> \o IdA}

Tails ==
    { <<>>,
      <<"?","v","=">> \o IdA,
      <<"?","v","=">>,
      <<"?","t","=","1","&","v","=">> \o IdC,
      <<"?","v","=">> \o IdA \o <<"&","v","=">> \o IdC,
      <<"?","v","=">> \o IdA \o <<"#","t","=","5">>,
      <<"?","v","=","a","%","2","B","b","+","c">>,
      <<"?","v","=","%","z","z">>,
      <<"?","s","i","=","1">> }

\* arguments of extract_video_id
ExtractInputs ==
    {<<>>, IdA, IdC, IdHttp, IdAWithParam, UpperSchemeUrl}
        \cup {s \o h \o p \o t : s \in Schemes, h \in Hosts, p \in Paths, t \in Tails}

\* lines of the ids file, or URLs listed for a channel
CmdRefs == {IdA, IdC, WatchUrl(IdA), ShortUrl(IdC), IdAWithParam, IdHttp, BrokenUrl}

\* URLs handed to download_videos directly
Urls == {WatchUrl(IdA), WatchUrl(IdC)}

SeqsUpTo(S, n) == UNION {[1..m -> S] : m \in 0..n}

File(name) == [name |-> name, is_file |-> TRUE]

SubDir(name) == [name |-> name, is_file |-> FALSE]

TitleA == <<"T","i","t","l","e"," ","A","-">>

TitleB == <<"T","i","t","l","e"," ","B","-">>

ExtMp4 == <<".","m","p","4">>

FileA == File(TitleA \o IdA \o ExtMp4)

FileB == File(TitleB \o IdB \o ExtMp4)

DirB == SubDir(TitleB \o IdB \o ExtMp4)

Notes == File(<<"n","o","t","e","s",".","t","x","t">>)

\* contents of the output directory when a call starts
DirContents == {{}, {FileA, Notes, DirB}, {FileA, FileB}}

\* --delay, default
DefaultDelay == 2

\* --jitter, default
DefaultJitter == 1

DelaySet == {0, DefaultDelay}

JitterSet == {0, DefaultJitter}

\* --delay and --jitter as given to the download command
CommandPacing == {<<0, 0>>, <<DefaultDelay, DefaultJitter>>}

----------------------------------------------------------------------------
(* The progress sink and the media fetcher. *)

NoTask == [total |-> 0, completed |-> 0, live |-> FALSE]

Event(ev, item, url, ok, t) == [ev |-> ev, item |-> item, url |-> url, ok |-> ok, t |-> t]

\* the file the fetcher leaves for url: outtmpl "%(title)s-%(id)s.%(ext)s"
WrittenFile(url) == File(<<"v","-">> \o extract_video_id(url).value \o ExtMp4)

----------------------------------------------------------------------------
(* Initial states: one call of one entry point. *)

InitExtract ==
    /\ entry = "extract_video_id" /\ pc = "extract_call"
    /\ vid \in ExtractInputs
    /\ directory = {} /\ directory_at_call = {}
    /\ result = <<>>
    /\ command = "none" /\ video_ids = <<>>
    /\ downloaded_ids = {} /\ scans = 0 /\ k = 0
    /\ video_urls_to_download = <<>> /\ skipped_count = 0
    /\ video_urls = <<>> /\ delay = 0 /\ jitter = 0
    /\ i = 0 /\ success_count = 0 /\ failed_urls = <<>>
    /\ overall_task = NoTask /\ current_task_id = 0
    /\ trace = <<>>
    /\ download_result = [returned |-> FALSE, success_count |-> 0, failure_count |-> 0, failed_urls |-> <<>>]

InitDownloadVideos ==
    /\ entry = "download_videos" /\ pc = "dl_entry"
    /\ video_urls \in SeqsUpTo(Urls, MaxUrls)
    /\ delay \in DelaySet /\ jitter \in JitterSet
    /\ directory = {FileA, Notes} /\ directory_at_call = directory
    /\ vid = <<>> /\ result = <<>>
    /\ command = "none" /\ video_ids = <<>>
    /\ downloaded_ids = {} /\ scans = 0 /\ k = 0
    /\ video_urls_to_download = <<>> /\ skipped_count = 0
    /\ i = 0 /\ success_count = 0 /\ failed_urls = <<>>
    /\ overall_task = NoTask /\ current_task_id = 0
    /\ trace = <<>>
    /\ download_result = [returned |-> FALSE, success_count |-> 0, failure_count |-> 0, failed_urls |-> <<>>]

InitCommand ==
    /\ entry = "command" /\ pc = "cmd_start"
    /\ command \in {"download", "channel"}
    /\ video_ids \in SeqsUpTo(CmdRefs, MaxIds)
    /\ directory \in DirContents /\ directory_at_call = directory
    /\ \/ command = "download" /\ \E p \in CommandPacing : delay = p[1] /\ jitter = p[2]
       \/ command = "channel" /\ delay = DefaultDelay /\ jitter = DefaultJitter
    /\ vid = <<>> /\ result = <<>>
    /\ downloaded_ids = {} /\ scans = 0 /\ k = 0
    /\ video_urls_to_download = <<>> /\ skipped_count = 0
    /\ video_urls = <<>>
    /\ i = 0 /\ success_count = 0 /\ failed_urls = <<>>
    /\ overall_task = NoTask /\ current_task_id = 0
    /\ trace = <<>>
    /\ download_result = [returned |-> FALSE, success_count |-> 0, failure_count |-> 0, failed_urls |-> <<>>]

Init == InitExtract \/ InitDownloadVideos \/ InitCommand

----------------------------------------------------------------------------
(* extract_video_id called on its own. *)

ExtractCall ==
    /\ pc = "extract_call"
    /\ LET r == extract_video_id(vid)
       IN  /\ pc' = IF r.raised THEN "extract_raised" ELSE "extract_returned"
           /\ result' = r.value
    /\ UNCHANGED <<entry, vid, command, video_ids, directory, directory_at_call,
                   downloaded_ids, scans, k, video_urls_to_download, skipped_count,
                   video_urls, delay, jitter, i, success_count, failed_urls,
                   overall_task, current_task_id, trace, download_result>>

----------------------------------------------------------------------------
(* filter_already_downloaded, as the commands call it. *)

\* channel: "No videos found in channel."
ChannelNoVideos ==
    /\ pc = "cmd_start"
    /\ command = "channel"
    /\ video_ids = <<>>
    /\ pc' = "cmd_returned"
    /\ UNCHANGED <<entry, vid, result, command, video_ids, directory, directory_at_call,
                   downloaded_ids, scans, k, video_urls_to_download, skipped_count,
                   video_urls, delay, jitter, i, success_count, failed_urls,
                   overall_task, current_task_id, trace, download_result>>

\* the call of filter_already_downloaded up to its loop
FilterScan ==
    /\ pc = "cmd_start"
    /\ ~(command = "channel" /\ video_ids = <<>>)
    /\ downloaded_ids' = get_downloaded_video_ids(directory)
    /\ scans' = scans + 1
    /\ video_urls_to_download' = <<>>
    /\ skipped_count' = 0
    /\ k' = 0
    /\ pc' = "filter_loop"
    /\ UNCHANGED <<entry, vid, result, command, video_ids, directory, directory_at_call,
                   video_urls, delay, jitter, i, success_count, failed_urls,
                   overall_task, current_task_id, trace, download_result>>

\* what the loop appends for a kept item
KeptForm(v) == IF StartsWith(v, HTTP) THEN v ELSE WatchUrlPrefix \o v

\* one iteration of the loop over video_ids
FilterStep ==
    /\ pc = "filter_loop"
    /\ k < Len(video_ids)
    /\ LET v         == video_ids[k + 1]
           actual_id == extract_video_id(v)
       IN  IF actual_id.raised
           THEN /\ pc' = "cmd_raised"
                /\ UNCHANGED <<k, skipped_count, video_urls_to_download>>
           ELSE /\ pc' = "filter_loop"
                /\ k' = k + 1
                /\ IF actual_id.value \in downloaded_ids
                   THEN /\ skipped_count' = skipped_count + 1
                        /\ UNCHANGED video_urls_to_download
                   ELSE /\ video_urls_to_download' = Append(video_urls_to_download, KeptForm(v))
                        /\ UNCHANGED skipped_count
    /\ UNCHANGED <<entry, vid, result, command, video_ids, directory, directory_at_call,
                   downloaded_ids, scans, video_urls, delay, jitter, i, success_count,
                   failed_urls, overall_task, current_task_id, trace, download_result>>

FilterReturn ==
    /\ pc = "filter_loop"
    /\ k = Len(video_ids)
    /\ pc' = "cmd_filtered"
    /\ UNCHANGED <<entry, vid, result, command, video_ids, directory, directory_at_call,
                   downloaded_ids, scans, k, video_urls_to_download, skipped_count,
                   video_urls, delay, jitter, i, success_count, failed_urls,
                   overall_task, current_task_id, trace, download_result>>

\* "No new videos to download." / "All videos already downloaded."
CommandNothingPending ==
    /\ pc = "cmd_filtered"
    /\ video_urls_to_download = <<>>
    /\ pc' = "cmd_returned"
    /\ UNCHANGED <<entry, vid, result, command, video_ids, directory, directory_at_call,
                   downloaded_ids, scans, k, video_urls_to_download, skipped_count,
                   video_urls, delay, jitter, i, success_count, failed_urls,
                   overall_task, current_task_id, trace, download_result>>

CommandCallsDownload ==
    /\ pc = "cmd_filtered"
    /\ video_urls_to_download # <<>>
    /\ video_urls' = video_urls_to_download
    /\ pc' = "dl_entry"
    /\ UNCHANGED <<entry, vid, result, command, video_ids, directory, directory_at_call,
                   downloaded_ids, scans, k, video_urls_to_download, skipped_count,
                   delay, jitter, i, success_count, failed_urls,
                   overall_task, current_task_id, trace, download_result>>

----------------------------------------------------------------------------
(* download_videos. *)

\* everything before the loop
DownloadVideosEntry ==
    /\ pc = "dl_entry"
    /\ current_task_id' = 0
    /\ success_count' = 0
    /\ failed_urls' = <<>>
    /\ overall_task' = [total |-> Len(video_urls), completed |-> 0, live |-> TRUE]
    /\ i' = 0
    /\ pc' = "dl_fetch"
    /\ UNCHANGED <<entry, vid, result, command, video_ids, directory, directory_at_call,
                   downloaded_ids, scans, k, video_urls_to_download, skipped_count,
                   video_urls, delay, jitter, trace, download_result>>

\* Advanced, had the update set completed=1 instead of advancing by 1
AdvancedSetsCompleted(task) == [task EXCEPT !.completed = 1]

\* progress.update(overall_task, advance=1)
Advanced(task) == [task EXCEPT !.completed = task.completed + 1]

\* FetchSucceeds, had the inventory been refreshed after each download
FetchSucceedsRefreshesInventory ==
    /\ pc = "dl_fetch"
    /\ i < Len(video_urls)
    /\ LET video_url == video_urls[i + 1]
       IN  /\ trace' = trace \o <<[ev |-> "fetch", item |-> i, url |-> video_url, ok |-> TRUE, t |-> 0],
                                  [ev |-> "advance", item |-> i, url |-> video_url, ok |-> TRUE, t |-> 0]>>
           /\ directory' = directory \cup {[name |-> <<"v","-">> \o extract_video_id(video_url).value \o <<".","m","p","4">>, is_file |-> TRUE]}
    /\ downloaded_ids' = get_downloaded_video_ids(directory')
    /\ current_task_id' = i + 1
    /\ success_count' = success_count + 1
    /\ overall_task' = [overall_task EXCEPT !.completed = overall_task.completed + 1]
    /\ pc' = "dl_pace"
    /\ UNCHANGED <<entry, vid, result, command, video_ids, directory_at_call,
                   scans, k, video_urls_to_download, skipped_count,
                   video_urls, delay, jitter, i, failed_urls, download_result>>

\* the try branch: the fetch of video_urls[i] returns
FetchSucceeds ==
    /\ pc = "dl_fetch"
    /\ i < Len(video_urls)
    /\ LET video_url == video_urls[i + 1]
       IN  /\ trace' = trace \o <<Event("fetch", i, video_url, TRUE, 0),
                                  Event("advance", i, video_url, TRUE, 0)>>
           /\ directory' = directory \cup {WrittenFile(video_url)}
    /\ current_task_id' = i + 1
    /\ success_count' = success_count + 1
    /\ overall_task' = Advanced(overall_task)
    /\ pc' = "dl_pace"
    /\ UNCHANGED <<entry, vid, result, command, video_ids, directory_at_call,
                   downloaded_ids, scans, k, video_urls_to_download, skipped_count,
                   video_urls, delay, jitter, i, failed_urls, download_result>>

\* FetchFails, had the except clause been missing: the error leaves download_videos
FetchFailsPropagates ==
    /\ pc = "dl_fetch"
    /\ i < Len(video_urls)
    /\ trace' = Append(trace, [ev |-> "fetch", item |-> i, url |-> video_urls[i + 1], ok |-> FALSE, t |-> 0])
    /\ current_task_id' = i + 1
    /\ pc' = "dl_raised"
    /\ UNCHANGED <<entry, vid, result, command, video_ids, directory, directory_at_call,
                   downloaded_ids, scans, k, video_urls_to_download, skipped_count,
                   video_urls, delay, jitter, i, success_count, failed_urls,
                   overall_task, download_result>>

\* FetchFails, had success_count += 1 stood before the download call
FetchFailsCountsSuccess ==
    /\ pc = "dl_fetch"
    /\ i < Len(video_urls)
    /\ LET video_url == video_urls[i + 1]
       IN  /\ trace' = trace \o <<[ev |-> "fetch", item |-> i, url |-> video_url, ok |-> FALSE, t |-> 0],
                                  [ev |-> "advance", item |-> i, url |-> video_url, ok |-> FALSE, t |-> 0]>>
           /\ failed_urls' = Append(failed_urls, video_url)
    /\ success_count' = success_count + 1
    /\ current_task_id' = i + 1
    /\ overall_task' = [overall_task EXCEPT !.completed = overall_task.completed + 1]
    /\ pc' = "dl_pace"
    /\ UNCHANGED <<entry, vid, result, command, video_ids, directory, directory_at_call,
                   downloaded_ids, scans, k, video_urls_to_download, skipped_count,
                   video_urls, delay, jitter, i, download_result>>

\* FetchFails, had the failed URL been inserted at the front of failed_urls
FetchFailsPrepends ==
    /\ pc = "dl_fetch"
    /\ i < Len(video_urls)
    /\ LET video_url == video_urls[i + 1]
       IN  /\ trace' = trace \o <<[ev |-> "fetch", item |-> i, url |-> video_url, ok |-> FALSE, t |-> 0],
                                  [ev |-> "advance", item |-> i, url |-> video_url, ok |-> FALSE, t |-> 0]>>
           /\ failed_urls' = <<video_url>> \o failed_urls
    /\ current_task_id' = i + 1
    /\ overall_task' = [overall_task EXCEPT !.completed = overall_task.completed + 1]
    /\ pc' = "dl_pace"
    /\ UNCHANGED <<entry, vid, result, command, video_ids, directory, directory_at_call,
                   downloaded_ids, scans, k, video_urls_to_download, skipped_count,
                   video_urls, delay, jitter, i, success_count, download_result>>

\* the except branch: the fetch of video_urls[i] raises
FetchFails ==
    /\ pc = "dl_fetch"
    /\ i < Len(video_urls)
    /\ LET video_url == video_urls[i + 1]
       IN  /\ trace' = trace \o <<Event("fetch", i, video_url, FALSE, 0),
                                  Event("advance", i, video_url, FALSE, 0)>>
           /\ failed_urls' = Append(failed_urls, video_url)
    /\ current_task_id' = i + 1
    /\ overall_task' = Advanced(overall_task)
    /\ pc' = "dl_pace"
    /\ UNCHANGED <<entry, vid, result, command, video_ids, directory, directory_at_call,
                   downloaded_ids, scans, k, video_urls_to_download, skipped_count,
                   video_urls, delay, jitter, i, success_count, download_result>>

\* NotLast, had the comparison been i < len(video_urls)
NotLastOffByOne == i < Len(video_urls)

\* i < len(video_urls) - 1
NotLast == i < Len(video_urls) - 1

\* SleepTimes, had the delay been left out of the sum
SleepTimesJitterOnly == {r : r \in 0..jitter}

\* delay + random.uniform(0, jitter), in whole seconds
SleepTimes == {delay + r : r \in 0..jitter}

PaceSleep ==
    /\ pc = "dl_pace"
    /\ NotLast
    /\ \E sleep_time \in SleepTimes :
          trace' = Append(trace, Event("sleep", i, video_urls[i + 1], TRUE, sleep_time))
    /\ i' = i + 1
    /\ pc' = "dl_fetch"
    /\ UNCHANGED <<entry, vid, result, command, video_ids, directory, directory_at_call,
                   downloaded_ids, scans, k, video_urls_to_download, skipped_count,
                   video_urls, delay, jitter, success_count, failed_urls,
                   overall_task, current_task_id, download_result>>

PaceSkip ==
    /\ pc = "dl_pace"
    /\ ~NotLast
    /\ i' = i + 1
    /\ pc' = "dl_fetch"
    /\ UNCHANGED <<entry, vid, result, command, video_ids, directory, directory_at_call,
                   downloaded_ids, scans, k, video_urls_to_download, skipped_count,
                   video_urls, delay, jitter, success_count, failed_urls,
                   overall_task, current_task_id, trace, download_result>>

DownloadVideosReturn ==
    /\ pc = "dl_fetch"
    /\ i >= Len(video_urls)
    /\ download_result' = [returned      |-> TRUE,
                           success_count |-> success_count,
                           failure_count |-> Len(failed_urls),
                           failed_urls   |-> failed_urls]
    /\ pc' = "dl_returned"
    /\ UNCHANGED <<entry, vid, result, command, video_ids, directory, directory_at_call,
                   downloaded_ids, scans, k, video_urls_to_download, skipped_count,
                   video_urls, delay, jitter, i, success_count, failed_urls,
                   overall_task, current_task_id, trace>>

\* the command logs the result and returns
CommandDone ==
    /\ pc = "dl_returned"
    /\ entry = "command"
    /\ pc' = "cmd_returned"
    /\ UNCHANGED <<entry, vid, result, command, video_ids, directory, directory_at_call,
                   downloaded_ids, scans, k, video_urls_to_download, skipped_count,
                   video_urls, delay, jitter, i, success_count, failed_urls,
                   overall_task, current_task_id, trace, download_result>>

DownloadVideosNext ==
    \/ DownloadVideosEntry
    \/ FetchSucceeds
    \/ FetchFails
    \/ PaceSleep
    \/ PaceSkip
    \/ DownloadVideosReturn

Next ==
    \/ ExtractCall
    \/ ChannelNoVideos
    \/ FilterScan
    \/ FilterStep
    \/ FilterReturn
    \/ CommandNothingPending
    \/ CommandCallsDownload
    \/ DownloadVideosNext
    \/ CommandDone

Spec == Init /\ [][Next]_vars

----------------------------------------------------------------------------
(* What the claims speak about. *)

Fetches == SelectSeq(trace, LAMBDA e : e.ev = "fetch")

Sleeps == SelectSeq(trace, LAMBDA e : e.ev = "sleep")

Advances == SelectSeq(trace, LAMBDA e : e.ev = "advance")

FetchedUrls == [n \in DOMAIN Fetches |-> Fetches[n].url]

FailedFetches == SelectSeq(Fetches, LAMBDA e : ~e.ok)

RECURSIVE TotalSleep(_)
TotalSleep(es) == IF es = <<>> THEN 0 ELSE Head(es).t + TotalSleep(Tail(es))

\* a reference with a scheme prefix
IsUrl(v) == StartsWith(v, SchemeHttp) \/ StartsWith(v, SchemeHttps)

\* the items of ids whose normalized identifier is not in inv, in order
RECURSIVE KeptItems(_, _)
KeptItems(ids, inv) ==
    IF ids = <<>> THEN <<>>
    ELSE IF extract_video_id(Head(ids)).value \in inv
         THEN KeptItems(Tail(ids), inv)
         ELSE <<Head(ids)>> \o KeptItems(Tail(ids), inv)

InDownloadVideos == pc = "dl_entry" \/ (overall_task.live /\ ~download_result.returned)

N == Len(video_urls)

----------------------------------------------------------------------------
(* C1 *)

\* loop steps download_videos still has to take before it has returned
StepsLeft ==
    IF pc = "dl_entry" THEN 2 * N + 2
    ELSE IF pc = "dl_fetch" THEN 2 * (N - i) + 1
    ELSE IF pc = "dl_pace" THEN 2 * (N - i)
    ELSE 0

C1_Isolated ==
    /\ Len(Fetches) <= N
    /\ FetchedUrls = SubSeq(video_urls, 1, Len(Fetches))
    /\ \A n \in DOMAIN Fetches : Fetches[n].item = n - 1
    /\ pc = "dl_fetch" => Len(Fetches) = i
    /\ pc = "dl_pace" => Len(Fetches) = i + 1
    /\ InDownloadVideos => pc \in {"dl_entry", "dl_fetch", "dl_pace"} /\ StepsLeft > 0
    /\ \A n \in 1..(Len(Fetches) - 1) : ~Fetches[n].ok => Fetches[n + 1].item = n
    /\ download_result.returned => FetchedUrls = video_urls

\* C1: failure isolation in download_videos. Whatever fetches raise, the items
\* fetched so far are exactly the first items of video_urls, once each and in
\* input order; a failed fetch is followed by the fetch of the next item; until
\* download_videos has returned it stands before its loop, before a fetch or the
\* return, or before the pacing step (each of which has a step to take), never
\* at an escaped exception, and every step it takes brings the return nearer;
\* once it has returned every item has been fetched exactly once.
C1_FailureIsolation ==
    /\ []C1_Isolated
    /\ [][InDownloadVideos => StepsLeft' < StepsLeft]_vars

\* a returned run whose first fetch raised and whose later fetches still happened
C1_Witness ==
    /\ download_result.returned
    /\ N >= 3
    /\ ~Fetches[1].ok
    /\ Len(Fetches) = N
    /\ Fetches[N].ok

----------------------------------------------------------------------------
(* C3 *)

\* C3: count invariant of download_videos. After every loop iteration
\* success_count plus the number of recorded failures equals the number of
\* items attempted so far, and the returned success_count + failure_count
\* equals len(video_urls).
C3_CountInvariant ==
    /\ overall_task.live => success_count + Len(failed_urls) = Len(Fetches)
    /\ pc = "dl_pace" => success_count + Len(failed_urls) = i + 1
    /\ download_result.returned =>
          download_result.success_count + download_result.failure_count = N

C3_Witness ==
    /\ download_result.returned
    /\ download_result.success_count >= 1
    /\ download_result.failure_count >= 2

----------------------------------------------------------------------------
(* C4 *)

\* C4: inter-item pacing. Every sleep directly follows the handling of an item
\* that is not the last one, succeeded or failed, and is directly followed by the
\* fetch of the next item; every fetch but the first is directly preceded by the
\* sleep after the item before it; a returned run of N >= 1 items slept exactly
\* N - 1 times and never after the final item; a run on the empty list returns
\* DownloadResult(0, 0, []) without a sleep or a fetch.
C4_Pacing ==
    /\ \A n \in DOMAIN trace :
          trace[n].ev = "sleep" =>
             /\ n > 2
             /\ trace[n - 2].ev = "fetch" /\ trace[n - 2].item = trace[n].item
             /\ trace[n - 1].ev = "advance"
             /\ trace[n].item < N - 1
             /\ n < Len(trace) => trace[n + 1].ev = "fetch" /\ trace[n + 1].item = trace[n].item + 1
    /\ \A n \in DOMAIN trace :
          (trace[n].ev = "fetch" /\ trace[n].item > 0) =>
             n > 1 /\ trace[n - 1].ev = "sleep" /\ trace[n - 1].item = trace[n].item - 1
    /\ (download_result.returned /\ N >= 1) =>
          Len(Sleeps) = N - 1 /\ trace[Len(trace)].ev # "sleep"
    /\ (download_result.returned /\ N = 0) =>
          /\ trace = <<>>
          /\ download_result.success_count = 0
          /\ download_result.failure_count = 0
          /\ download_result.failed_urls = <<>>

\* a returned run of three items that slept after a failed and after a successful item
C4_Witness ==
    /\ download_result.returned
    /\ N = 3
    /\ Len(Sleeps) = 2
    /\ ~Fetches[1].ok
    /\ Fetches[2].ok

----------------------------------------------------------------------------
(* C5 *)

\* C5: failed_urls is the subsequence of video_urls whose fetch raised, in input
\* order, each failing occurrence once and no successful item; when item 2 of 3
\* raises the result is success_count 2, failure_count 1, failed_urls [item 2].
C5_FailedUrls ==
    /\ overall_task.live =>
          failed_urls = [n \in DOMAIN FailedFetches |-> video_urls[FailedFetches[n].item + 1]]
    /\ download_result.returned =>
          /\ download_result.failed_urls =
                [n \in DOMAIN FailedFetches |-> video_urls[FailedFetches[n].item + 1]]
          /\ download_result.failure_count = Len(FailedFetches)
          /\ download_result.success_count = Len(Fetches) - Len(FailedFetches)
    /\ (download_result.returned /\ N = 3 /\ Len(Fetches) = 3
           /\ Fetches[1].ok /\ ~Fetches[2].ok /\ Fetches[3].ok) =>
          /\ download_result.success_count = 2
          /\ download_result.failure_count = 1
          /\ download_result.failed_urls = <<video_urls[2]>>

\* item 2 of 3 raised
C5_Witness ==
    /\ download_result.returned
    /\ N = 3
    /\ Fetches[1].ok /\ ~Fetches[2].ok /\ Fetches[3].ok
    /\ download_result.failed_urls = <<video_urls[2]>>

----------------------------------------------------------------------------
(* C8 *)

\* C8: overall progress. The overall task is created with total len(video_urls)
\* and is advanced by exactly 1 once per item, on success and on failure alike,
\* directly after that item's fetch and before anything of the next item; at
\* return its completed count equals len(video_urls) and
\* success_count + failure_count.
C8_OverallProgress ==
    /\ overall_task.live => overall_task.total = N
    /\ overall_task.completed = Len(Advances)
    /\ \A n \in DOMAIN trace :
          trace[n].ev = "fetch" =>
             n < Len(trace) /\ trace[n + 1].ev = "advance" /\ trace[n + 1].item = trace[n].item
    /\ \A n \in DOMAIN trace :
          trace[n].ev = "advance" =>
             n > 1 /\ trace[n - 1].ev = "fetch" /\ trace[n - 1].item = trace[n].item
    /\ download_result.returned =>
          /\ overall_task.completed = N
          /\ overall_task.completed =
                download_result.success_count + download_result.failure_count

\* item 2 of 3 raised and all three completion updates were issued
C8_Witness ==
    /\ download_result.returned
    /\ N = 3
    /\ Fetches[1].ok /\ ~Fetches[2].ok /\ Fetches[3].ok
    /\ overall_task.completed = 3

----------------------------------------------------------------------------
(* C9 *)

\* C9: sleep bounds. Every sleep lasts between delay and delay + jitter seconds;
\* the total sleep of a returned run of N >= 1 items lies in
\* [delay * (N - 1), (delay + jitter) * (N - 1)], which for delay 2 and jitter 1
\* is [2 * (N - 1), 3 * (N - 1)].
C9_SleepBounds ==
    /\ \A n \in DOMAIN Sleeps : delay <= Sleeps[n].t /\ Sleeps[n].t <= delay + jitter
    /\ (download_result.returned /\ N >= 1) =>
          /\ delay * (N - 1) <= TotalSleep(Sleeps)
          /\ TotalSleep(Sleeps) <= (delay + jitter) * (N - 1)
    /\ (download_result.returned /\ N >= 1 /\ delay = 2 /\ jitter = 1) =>
          /\ 2 * (N - 1) <= TotalSleep(Sleeps)
          /\ TotalSleep(Sleeps) <= 3 * (N - 1)

\* delay 2, jitter 1, three items: one sleep of 2 s and one of 3 s
C9_Witness ==
    /\ download_result.returned
    /\ delay = 2 /\ jitter = 1
    /\ N = 3
    /\ TotalSleep(Sleeps) = 5

----------------------------------------------------------------------------
(* C10 *)

\* the positions of a command after filter_already_downloaded returned
AfterFilter ==
    /\ entry = "command"
    /\ \/ pc \in {"cmd_filtered", "dl_entry", "dl_fetch", "dl_pace", "dl_returned"}
       \/ pc = "cmd_returned" /\ scans = 1

\* C10: the inventory is scanned once per invocation, before any item is
\* filtered or fetched, and is the inventory of the directory as it was then,
\* whatever the batch has written since; pending holds every input occurrence
\* whose identifier is not in that inventory (so all k occurrences of a
\* not-yet-downloaded identifier), and each of them is fetched.
C10_InventoryScannedOnce ==
    /\ scans <= 1
    /\ (entry = "command" /\ (k > 0 \/ video_urls_to_download # <<>> \/ trace # <<>>)) => scans = 1
    /\ (entry = "command" /\ scans = 1) =>
          downloaded_ids = get_downloaded_video_ids(directory_at_call)
    /\ AfterFilter =>
          LET kept == KeptItems(video_ids, get_downloaded_video_ids(directory_at_call))
          IN  video_urls_to_download = [n \in DOMAIN kept |-> KeptForm(kept[n])]
    /\ (entry = "command" /\ download_result.returned) => FetchedUrls = video_urls_to_download

\* identifier C given twice: both occurrences fetched, the second one after the
\* first had been downloaded and its file stood in the directory
C10_Witness ==
    /\ entry = "command"
    /\ download_result.returned
    /\ video_ids = <<IdC, IdC>>
    /\ FetchedUrls = <<WatchUrl(IdC), WatchUrl(IdC)>>
    /\ Fetches[1].ok
    /\ IdC \in get_downloaded_video_ids(directory)
    /\ IdC \notin downloaded_ids

----------------------------------------------------------------------------
(* C2 *)

\* C2: dedup safety of filter_already_downloaded. At its return no element of
\* pending normalizes to an identifier of the scanned inventory; pending is the
\* input with the skipped items removed, in input order; skipped_count is the
\* number of input items whose normalized identifier is in the inventory, and
\* len(pending) + skipped_count = len(input).
C2_DedupSafety ==
    pc = "cmd_filtered" =>
       LET inventory == get_downloaded_video_ids(directory)
           kept      == KeptItems(video_ids, inventory)
       IN  /\ \A n \in DOMAIN video_urls_to_download :
                 LET r == extract_video_id(video_urls_to_download[n])
                 IN  ~r.raised /\ r.value \notin inventory
           /\ video_urls_to_download = [n \in DOMAIN kept |-> KeptForm(kept[n])]
           /\ skipped_count = Len(video_ids) - Len(kept)
           /\ Len(video_urls_to_download) + skipped_count = Len(video_ids)

----------------------------------------------------------------------------
(* C6 *)

LongFormHosts == {HostWww, HostBare}

UrlSchemes == {SchemeHttp, SchemeHttps}

\* v is the long-form watch URL with query v=x
IsWatchUrlOf(v, x) == \E s \in UrlSchemes, h \in LongFormHosts : v = s \o h \o PathWatch \o <<"?","v","=">> \o x

\* v is the short link host/x
IsShortUrlOf(v, x) == \E s \in UrlSchemes : v = s \o HostShort \o <<"/">> \o x

\* v is a long-form watch URL whose query names no parameter v
IsWatchUrlWithoutV(v) ==
    \E s \in UrlSchemes, h \in LongFormHosts :
       /\ StartsWith(v, s \o h \o PathWatch)
       /\ LET rest == From(v, Len(s \o h \o PathWatch) + 1)
          IN  rest = <<>> \/ (rest[1] = "?" /\ "v" \notin Range(rest))

\* v is a URL on neither the long-form nor the short-link host
IsOtherUrl(v) == \E s \in UrlSchemes, h \in {HostMobile, HostOpenBracket} : StartsWith(v, s \o h)

Identifiers == {IdA, IdB, IdC, IdHttp}

\* C6: extract_video_id never raises and always returns a string: a reference
\* that is not a URL comes back unchanged; a long-form watch URL with query v=X
\* gives X; a short link host/X gives X; a watch URL without a v parameter and
\* any other URL form come back unchanged.
C6_NormalizeTotal ==
    /\ pc # "extract_raised"
    /\ pc = "extract_returned" =>
          /\ ~IsUrl(vid) => result = vid
          /\ \A x \in Identifiers : IsWatchUrlOf(vid, x) => result = x
          /\ \A x \in Identifiers : IsShortUrlOf(vid, x) => result = x
          /\ IsWatchUrlWithoutV(vid) => result = vid
          /\ IsOtherUrl(vid) => result = vid

----------------------------------------------------------------------------
(* C7 *)

\* C7: URL rewriting in filter_already_downloaded. At its return every kept item
\* given as a bare identifier stands in pending as the watch URL built from it,
\* every kept item given in URL form stands there unchanged, and so every
\* element of pending is a URL.
C7_UrlRewriting ==
    pc = "cmd_filtered" =>
       LET kept == KeptItems(video_ids, get_downloaded_video_ids(directory))
       IN  /\ Len(video_urls_to_download) = Len(kept)
           /\ \A n \in DOMAIN kept :
                 video_urls_to_download[n] = IF IsUrl(kept[n]) THEN kept[n] ELSE WatchUrl(kept[n])
           /\ \A n \in DOMAIN video_urls_to_download : IsUrl(video_urls_to_download[n])

====
